---- MODULE Spec2Model ----
(***************************************************************************)
(* Model of angular-dependency-analyzer (src/src/main.rs).                 *)
(*                                                                         *)
(* main walks a directory, and for every eligible .ts/.tsx file reads it,  *)
(* parses it, traverses the AST with the Analyzer visitor (import bindings *)
(* and identifier counts in ONE depth-first pass), merges the per-file     *)
(* counts into global_counts and finally prints the counts sorted by count *)
(* descending.                                                             *)
(*                                                                         *)
(* The AST is modelled by the only two node kinds the visitor reacts to,   *)
(* in depth-first visiting order: an identifier node, and an import        *)
(* declaration with its specifiers.  Two specifications share the visitor: *)
(*   Spec       the whole run; the files' modules are the sample modules   *)
(*              of the documented scenarios (SampleModules);               *)
(*   SpecVisit  the run over one file whose AST is ANY node sequence of at *)
(*              most MaxNodes nodes, produced node by node as the          *)
(*              traversal reaches it (the visitor never looks ahead).      *)
(***************************************************************************)
EXTENDS Integers, Sequences, FiniteSets, TLC

\* ------------------------------------------------------------------ bounds
MaxEntries == 3
MaxNodes == 3
MaxSpecs == 1

\* ------------------------------------------------------------ vocabulary
Names == {"useState", "useEffect"}
NoName == "-"

\* ------------------------------------------------------------------- AST
\* swc_ecma_ast::ImportSpecifier: Named {local, imported: Option}, Default
\* {local}, Namespace {local}.  imported = NoName is Option::None.
Named(local, imported) == [kind |-> "Named", local |-> local, imported |-> imported]
Default(local) == [kind |-> "Default", local |-> local, imported |-> NoName]
Namespace(local) == [kind |-> "Namespace", local |-> local, imported |-> NoName]

Specifiers ==
    {Named(l, i) : l \in Names, i \in Names \cup {NoName}}
        \cup {Default(l) : l \in Names} \cup {Namespace(l) : l \in Names}

\* The two node kinds Analyzer overrides a visit method for.
IdentNode(sym) == [type |-> "Ident", sym |-> sym, specifiers |-> <<>>]
ImportDeclNode(specs) == [type |-> "ImportDecl", sym |-> NoName, specifiers |-> specs]

SpecLists == UNION {[1..k -> Specifiers] : k \in 0..MaxSpecs}
Nodes == {IdentNode(n) : n \in Names} \cup {ImportDeclNode(s) : s \in SpecLists}

\* ----------------------------------------------------- HashMap<String,usize>
EmptyMap == [k \in {} |-> 0]
Get(m, k) == IF k \in DOMAIN m THEN m[k] ELSE 0

\* *map.entry(key).or_insert(0) += by
AddEntry(m, key, by) ==
    [k \in DOMAIN m \cup {key} |-> Get(m, k) + (IF k = key THEN by ELSE 0)]

\* ---------------------------------------------------------------- Analyzer
\* Vec::contains
Contains(v, x) == \E i \in 1..Len(v) : v[i] = x

\* ------------------------------------------------------------------ state
VARIABLES
    root,           \* "ok" | "missing": whether the target path can be walked
    yielded,        \* number of items the WalkDir iterator has yielded
    pc,             \* position of main: "iter" (loop head), "body" (an eligible
                    \* entry in hand), "visit" (traversal), "done" (report
                    \* printed, Ok(())), "error" (main returned Err)
    module,         \* the parsed module of the file in hand (Spec)
    pos,            \* index of the next node the traversal visits
    analyzer,       \* the Analyzer of the file in hand: imports, usage
    global_counts,  \* the global usage map
    sorted,         \* the printed report: a sequence of <<name, count>>
    eligible,       \* number of eligible entries the loop body ran for
    history,        \* what each eligible file so far contributed (observer)
    readErr,        \* whether fs::read_to_string has failed (observer)
    declared,       \* names bound by the import declarations visited so far
                    \* in the file in hand (observer of the AST)
    seenBefore,     \* per name, the identifier nodes visited in the file in
                    \* hand before any declaration bound it
    seenAfter,      \* per name, the identifier nodes visited in the file in
                    \* hand at or after the first declaration binding it
    aliased         \* the <<imported, local>> pairs of the `a as b`
                    \* specifiers visited so far in the file in hand

vars == <<root, yielded, pc, module, pos, analyzer, global_counts, sorted,
          eligible, history, readErr, declared, seenBefore, seenAfter, aliased>>

\* Analyzer::new
AnalyzerKeepImports == [imports |-> analyzer.imports, usage |-> EmptyMap]
AnalyzerNew == [imports |-> <<>>, usage |-> EmptyMap]

\* fn visit_ident
VisitIdentAlways(an, sym) == [an EXCEPT !.usage = AddEntry(@, sym, 1)]
VisitIdent(an, sym) ==
    IF Contains(an.imports, sym)
    THEN [an EXCEPT !.usage = AddEntry(@, sym, 1)]
    ELSE an

\* the match in visit_import_decl: the name one specifier binds
BindingNameImported(spec) ==
    IF spec.kind = "Named" /\ spec.imported # NoName THEN spec.imported ELSE spec.local
BindingName(spec) ==
    CASE spec.kind = "Named" -> spec.local
      [] spec.kind = "Default" -> spec.local
      [] spec.kind = "Namespace" -> spec.local

\* the identifier nodes below one specifier, in visiting order: local, then
\* the imported name when it is written (`a as b`)
SpecifierIdents(spec) ==
    IF spec.kind = "Named" /\ spec.imported # NoName
    THEN <<spec.local, spec.imported>>
    ELSE <<spec.local>>

RECURSIVE DeclIdents(_)
DeclIdents(specs) ==
    IF specs = <<>> THEN <<>>
    ELSE SpecifierIdents(Head(specs)) \o DeclIdents(Tail(specs))

RECURSIVE PushBindings(_, _)
PushBindings(imports, specs) ==
    IF specs = <<>> THEN imports
    ELSE PushBindings(Append(imports, BindingName(Head(specs))), Tail(specs))

RECURSIVE VisitIdents(_, _)
VisitIdents(an, syms) ==
    IF syms = <<>> THEN an
    ELSE VisitIdents(VisitIdent(an, Head(syms)), Tail(syms))

\* fn visit_import_decl: push every specifier's binding, then visit children
VisitImportDeclNoChildren(an, n) ==
    [an EXCEPT !.imports = PushBindings(@, n.specifiers)]
VisitImportDecl(an, n) ==
    VisitIdents([an EXCEPT !.imports = PushBindings(@, n.specifiers)],
                DeclIdents(n.specifiers))

VisitNode(an, n) ==
    IF n.type = "ImportDecl" THEN VisitImportDecl(an, n) ELSE VisitIdent(an, n.sym)

\* ------------------------------------------------------------ AST observers
\* the identifier nodes of one node, in depth-first order
NodeIdents(n) == IF n.type = "ImportDecl" THEN DeclIdents(n.specifiers) ELSE <<n.sym>>

\* the local names one node binds
NodeLocals(n) == {n.specifiers[i].local : i \in 1..Len(n.specifiers)}

NodeAliases(n) ==
    {<<n.specifiers[i].imported, n.specifiers[i].local>> :
        i \in {j \in 1..Len(n.specifiers) :
                  /\ n.specifiers[j].kind = "Named"
                  /\ n.specifiers[j].imported # NoName
                  /\ n.specifiers[j].imported # n.specifiers[j].local}}

CountIn(syms, name) == Cardinality({i \in 1..Len(syms) : syms[i] = name})

RECURSIVE ModuleIdents(_)
ModuleIdents(m) == IF m = <<>> THEN <<>> ELSE NodeIdents(Head(m)) \o ModuleIdents(Tail(m))

BoundNames(m) == UNION {NodeLocals(m[i]) : i \in 1..Len(m)}

\* --------------------------------------------------------- sample modules
\* import { useState } from 'react'; useState(); useState();
FileA == <<ImportDeclNode(<<Named("useState", NoName)>>),
           IdentNode("useState"), IdentNode("useState")>>
\* import { useEffect } from 'react'; useEffect();
FileB == <<ImportDeclNode(<<Named("useEffect", NoName)>>), IdentNode("useEffect")>>
\* import { useState as useEffect } from 'm'; useEffect(); useState();
AliasFile == <<ImportDeclNode(<<Named("useEffect", "useState")>>),
               IdentNode("useEffect"), IdentNode("useState")>>
\* useState(); import { useState } from 'react';
LateImportFile == <<IdentNode("useState"), ImportDeclNode(<<Named("useState", NoName)>>)>>
\* useState(); useEffect();   (no import declaration)
NoImportFile == <<IdentNode("useState"), IdentNode("useEffect")>>
\* import useState, * as useEffect from 'm'; useEffect.x();
DefaultNamespaceFile ==
    <<ImportDeclNode(<<Default("useState"), Namespace("useEffect")>>),
      IdentNode("useEffect")>>

SampleModules ==
    {FileA, FileB, AliasFile, LateImportFile, NoImportFile, DefaultNamespaceFile}

\* ------------------------------------------------------------------ merge
\* for (k, v) in analyzer.usage { *global_counts.entry(k).or_insert(0) += v; }
MergeOverwrite(g, usage) ==
    [k \in DOMAIN g \cup DOMAIN usage |-> IF k \in DOMAIN usage THEN usage[k] ELSE g[k]]
Merge(g, usage) ==
    [k \in DOMAIN g \cup DOMAIN usage |-> Get(g, k) + Get(usage, k)]

\* ----------------------------------------------------------------- report
\* the comparator of sorted.sort_by(|a, b| b.1.cmp(&a.1)): a sorts before b
ComesBeforeAscending(a, b) == a[2] < b[2]
ComesBefore(a, b) == a[2] > b[2]

\* Vec::sort_by is a stable sort: insertion from the left keeps equal
\* counts in their incoming order
RECURSIVE InsertSorted(_, _)
InsertSorted(s, x) ==
    IF s = <<>> THEN <<x>>
    ELSE IF ComesBefore(x, Head(s)) THEN <<x>> \o s
    ELSE <<Head(s)>> \o InsertSorted(Tail(s), x)

RECURSIVE SortBy(_)
SortBy(s) ==
    IF s = <<>> THEN <<>>
    ELSE InsertSorted(SortBy(SubSeq(s, 1, Len(s) - 1)), s[Len(s)])

\* global_counts.into_iter().collect(): the pairs in any order the HashMap
\* iterates them
Collections(g) ==
    {[i \in 1..Cardinality(DOMAIN g) |-> <<f[i], g[f[i]]>>] :
        f \in {h \in [1..Cardinality(DOMAIN g) -> DOMAIN g] :
                  \A i, j \in 1..Cardinality(DOMAIN g) : h[i] = h[j] => i = j}}

\* --------------------------------------------------------- error handling
\* let src = fs::read_to_string(path)?;   the error leaves main
OnReadErrSkip == "iter"
OnReadErr == "error"

\* Err(err) => { eprintln!(...); continue; }
OnParseErrAbort == "error"
OnParseErr == "iter"

\* -------------------------------------------------------------------- Init
Init ==
    /\ root \in {"ok", "missing"}
    /\ yielded = 0
    /\ pc = "iter"
    /\ module = <<>>
    /\ pos = 1
    /\ analyzer = [imports |-> <<>>, usage |-> EmptyMap]
    /\ global_counts = EmptyMap
    /\ sorted = <<>>
    /\ eligible = 0
    /\ history = <<>>
    /\ readErr = FALSE
    /\ declared = {}
    /\ seenBefore = [n \in Names |-> 0]
    /\ seenAfter = [n \in Names |-> 0]
    /\ aliased = {}

fileVars == <<module, pos, analyzer, declared, seenBefore, seenAfter, aliased>>

\* ------------------------------------------------------------ the file walk
\* The iterator yields an Err item, which filter_map(|e| e.ok()) drops.  A
\* missing root yields exactly one such item and then ends.
NextErr ==
    /\ pc = "iter"
    /\ \/ root = "missing" /\ yielded = 0
       \/ root = "ok" /\ yielded < MaxEntries
    /\ yielded' = yielded + 1
    /\ UNCHANGED <<root, pc, global_counts, sorted, eligible, history, readErr>>
    /\ UNCHANGED fileVars

\* The iterator yields an entry the extension filter rejects.
NextFiltered ==
    /\ pc = "iter"
    /\ root = "ok"
    /\ yielded < MaxEntries
    /\ yielded' = yielded + 1
    /\ UNCHANGED <<root, pc, global_counts, sorted, eligible, history, readErr>>
    /\ UNCHANGED fileVars

\* The iterator yields a .ts/.tsx entry: the loop body runs for it.
NextEligible ==
    /\ pc = "iter"
    /\ root = "ok"
    /\ yielded < MaxEntries
    /\ yielded' = yielded + 1
    /\ pc' = "body"
    /\ eligible' = eligible + 1
    /\ UNCHANGED <<root, global_counts, sorted, history, readErr>>
    /\ UNCHANGED fileVars

\* ------------------------------------------------------------ the loop body
ReadFail ==
    /\ pc = "body"
    /\ pc' = OnReadErr
    /\ readErr' = TRUE
    /\ UNCHANGED <<root, yielded, global_counts, sorted, eligible, history>>
    /\ UNCHANGED fileVars

ParseFail ==
    /\ pc = "body"
    /\ pc' = OnParseErr
    /\ history' = Append(history, [module |-> <<>>, parsed |-> FALSE, usage |-> EmptyMap])
    /\ UNCHANGED <<root, yielded, global_counts, sorted, eligible, readErr>>
    /\ UNCHANGED fileVars

\* The file is read and parsed, and a new Analyzer is made for it.
StartVisit(m) ==
    /\ pc' = "visit"
    /\ module' = m
    /\ pos' = 1
    /\ analyzer' = AnalyzerNew
    /\ declared' = {}
    /\ seenBefore' = [n \in Names |-> 0]
    /\ seenAfter' = [n \in Names |-> 0]
    /\ aliased' = {}
    /\ UNCHANGED <<root, global_counts, sorted, history, readErr>>

ParseOk ==
    /\ pc = "body"
    /\ \E m \in SampleModules : StartVisit(m)
    /\ UNCHANGED <<yielded, eligible>>

\* module.visit_with(&mut analyzer), one node per step
Visit(n) ==
    /\ analyzer' = VisitNode(analyzer, n)
    /\ pos' = pos + 1
    /\ declared' = declared \cup NodeLocals(n)
    /\ seenAfter' =
         [name \in Names |->
            IF name \in declared \cup NodeLocals(n)
            THEN seenAfter[name] + CountIn(NodeIdents(n), name)
            ELSE seenAfter[name]]
    /\ seenBefore' =
         [name \in Names |->
            IF name \in declared \cup NodeLocals(n)
            THEN seenBefore[name]
            ELSE seenBefore[name] + CountIn(NodeIdents(n), name)]
    /\ aliased' = aliased \cup NodeAliases(n)
    /\ UNCHANGED <<root, yielded, pc, module, global_counts, sorted, eligible,
                   history, readErr>>

VisitIdentNode ==
    /\ pc = "visit"
    /\ pos <= Len(module)
    /\ module[pos].type = "Ident"
    /\ Visit(module[pos])

VisitImportDeclNode ==
    /\ pc = "visit"
    /\ pos <= Len(module)
    /\ module[pos].type = "ImportDecl"
    /\ Visit(module[pos])

MergeFile ==
    /\ pc' = "iter"
    /\ global_counts' = Merge(global_counts, analyzer.usage)
    /\ history' = Append(history, [module |-> module, parsed |-> TRUE,
                                    usage |-> analyzer.usage])
    /\ UNCHANGED <<root, yielded, sorted, eligible, readErr>>
    /\ UNCHANGED fileVars

MergeStep ==
    /\ pc = "visit"
    /\ pos > Len(module)
    /\ MergeFile

\* The iterator ends: sort and print, return Ok(()).
Report ==
    /\ pc = "iter"
    /\ root = "missing" => yielded = 1
    /\ \E c \in Collections(global_counts) : sorted' = SortBy(c)
    /\ pc' = "done"
    /\ UNCHANGED <<root, yielded, global_counts, eligible, history, readErr>>
    /\ UNCHANGED fileVars

Next ==
    \/ NextErr
    \/ NextFiltered
    \/ NextEligible
    \/ ReadFail
    \/ ParseFail
    \/ ParseOk
    \/ VisitIdentNode
    \/ VisitImportDeclNode
    \/ MergeStep
    \/ Report

Spec == Init /\ [][Next]_vars

\* ------------------------------------------------- one file, any module
\* The walk yields one eligible file, which is read and parsed; its AST is
\* any sequence of at most MaxNodes nodes, each produced when the traversal
\* reaches it.  module stays empty: pos - 1 counts the nodes visited.
InitVisit ==
    /\ Init
    /\ root = "ok"

OpenFile ==
    /\ pc = "iter"
    /\ yielded = 0
    /\ yielded' = 1
    /\ eligible' = 1
    /\ StartVisit(<<>>)

VisitAnyIdent ==
    /\ pc = "visit"
    /\ pos <= MaxNodes
    /\ \E name \in Names : Visit(IdentNode(name))

VisitAnyImportDecl ==
    /\ pc = "visit"
    /\ pos <= MaxNodes
    /\ \E s \in SpecLists : Visit(ImportDeclNode(s))

EndVisit ==
    /\ pc = "visit"
    /\ MergeFile

ReportOne ==
    /\ yielded = 1
    /\ Report

NextVisit ==
    \/ OpenFile
    \/ VisitAnyIdent
    \/ VisitAnyImportDecl
    \/ EndVisit
    \/ ReportOne

SpecVisit == InitVisit /\ [][NextVisit]_vars

\* ================================================================== claims
Range(v) == {v[i] : i \in 1..Len(v)}
TraversalDone == pc = "visit" /\ pos > Len(module)

\* C1 (as claimed): when the traversal of a module is complete, the usage
\* count of every name bound by an import declaration of the module equals
\* the number of identifier nodes of that name anywhere in the module,
\* those visited before the binding declaration included.
C1_UsageCountsEveryIdent ==
    TraversalDone =>
        \A name \in BoundNames(module) :
            Get(analyzer.usage, name) = CountIn(ModuleIdents(module), name)

\* The two files of the scenario have been processed, in either order, and
\* no other file has.
ScenarioRun ==
    /\ Len(history) = 2
    /\ history[1].parsed /\ history[2].parsed
    /\ {history[1].module, history[2].module} = {FileA, FileB}

\* C2 (as claimed): file A yields {useState: 2}, file B yields
\* {useEffect: 1}, the global map after both is {useState: 2, useEffect: 1}
\* and the report lists useState 2 before useEffect 1.
C2_ScenarioAsClaimed ==
    /\ TraversalDone /\ module = FileA => analyzer.usage = ("useState" :> 2)
    /\ TraversalDone /\ module = FileB => analyzer.usage = ("useEffect" :> 1)
    /\ ScenarioRun => global_counts = ("useState" :> 2 @@ "useEffect" :> 1)
    /\ ScenarioRun /\ pc = "done" =>
           sorted = << <<"useState", 2>>, <<"useEffect", 1>> >>

\* C2 (amended): the identifier node of the import specifier itself is
\* counted too: file A yields {useState: 3}, file B yields {useEffect: 2},
\* the global map after both is {useState: 3, useEffect: 2} and the report
\* lists useState 3 before useEffect 2.
C2_ScenarioWithSpecifierIdents ==
    /\ TraversalDone /\ module = FileA => analyzer.usage = ("useState" :> 3)
    /\ TraversalDone /\ module = FileB => analyzer.usage = ("useEffect" :> 2)
    /\ ScenarioRun => global_counts = ("useState" :> 3 @@ "useEffect" :> 2)
    /\ ScenarioRun /\ pc = "done" =>
           sorted = << <<"useState", 3>>, <<"useEffect", 2>> >>

C2_Witness ==
    /\ ScenarioRun
    /\ history[1].module = FileB
    /\ pc = "done"
    /\ Len(sorted) = 2

\* C3: the loop iteration whose parse fails leaves the global map as it was
\* and returns to the loop head, so the files that follow get their turn: a
\* run is only ever aborted by a read failure, and at the loop head and at
\* the report every eligible file so far has been either skipped or merged.
C3_SkipOnParseFailure ==
    /\ [][(Len(history') = Len(history) + 1 /\ ~history'[Len(history')].parsed)
            => (global_counts' = global_counts /\ pc' = "iter")]_vars
    /\ [](pc = "error" => readErr)
    /\ [](pc \in {"iter", "done"} => Len(history) = eligible)

C3_Witness ==
    /\ pc = "done"
    /\ Len(history) = 2
    /\ ~history[1].parsed
    /\ history[2].parsed
    /\ history[2].usage # EmptyMap
    /\ global_counts = history[2].usage

\* the per-file maps of the files processed so far, merged in the order p
RECURSIVE MergeAll(_, _)
MergeAll(p, k) ==
    IF k = 0 THEN EmptyMap ELSE Merge(MergeAll(p, k - 1), history[p[k]].usage)

RECURSIVE SumOver(_, _)
SumOver(name, k) ==
    IF k = 0 THEN 0 ELSE SumOver(name, k - 1) + Get(history[k].usage, name)

\* C4: merging the per-file maps of the processed files in any permutation
\* of the order gives the global map, which maps each name some file counted
\* to the sum of its per-file counts (a file that failed to parse counts
\* nothing).
C4_MergeOrderIndependent ==
    /\ \A p \in Permutations(1..Len(history)) :
           MergeAll(p, Len(history)) = global_counts
    /\ DOMAIN global_counts = UNION {DOMAIN history[i].usage : i \in 1..Len(history)}
    /\ \A name \in DOMAIN global_counts :
           global_counts[name] = SumOver(name, Len(history))

C4_Witness ==
    /\ pc = "done"
    /\ Len(history) = 3
    /\ ~history[2].parsed
    /\ history[1].usage # history[3].usage
    /\ "useState" \in DOMAIN history[1].usage \cap DOMAIN history[3].usage
    /\ DOMAIN history[1].usage # DOMAIN history[3].usage

\* C5 (as claimed): a run whose root path cannot be walked never ends with
\* the report printed and Ok(()).
C5_RootFailureIsFatal == root = "missing" => pc # "done"

\* C6: every key of the per-file usage map is a name an import declaration
\* of the module has bound by then; with no binding there is no entry, and
\* merging such a file leaves the global map as it was (empty, for the first
\* file).
C6_OnlyImportedNamesCounted ==
    /\ DOMAIN analyzer.usage \subseteq declared
    /\ declared = {} => analyzer.usage = EmptyMap
    /\ declared = {} /\ history # <<>> => global_counts = EmptyMap

C6_Witness ==
    /\ pc = "done"
    /\ declared = {}
    /\ seenBefore["useState"] >= 1
    /\ seenBefore["useEffect"] >= 1
    /\ global_counts = EmptyMap

C8_ReportSortedAndComplete ==
    pc = "done" =>
        /\ Len(sorted) = Cardinality(DOMAIN global_counts)
        /\ \A k \in DOMAIN global_counts :
               \E i \in 1..Len(sorted) : sorted[i] = <<k, global_counts[k]>>
        /\ \A i \in 1..(Len(sorted) - 1) : sorted[i][2] >= sorted[i + 1][2]

C8_Witness ==
    /\ pc = "done"
    /\ Len(sorted) = 2
    /\ sorted[1][2] > sorted[2][2]

\* C9: once reading a file has failed main has returned the error: no
\* report is printed and nothing more happens; a run that prints the report
\* has processed (merged or skipped) every eligible file the walk yielded.
C9_ReadFailureAborts ==
    /\ [](readErr => pc = "error" /\ sorted = <<>>)
    /\ [](pc = "done" => ~readErr /\ Len(history) = eligible)
    /\ [][pc # "error"]_vars

C9_Witness ==
    /\ pc = "error"
    /\ readErr
    /\ global_counts # EmptyMap
    /\ yielded < MaxEntries

\* C10: each file starts with an empty binding list and an empty usage map,
\* during its traversal both hold only names bound by the import
\* declarations of that file visited so far, and the global map changes only
\* in the merge step that follows a completed traversal.
C10_PerFileIsolation ==
    /\ [](pc = "visit" =>
            /\ Range(analyzer.imports) \subseteq BoundNames(SubSeq(module, 1, pos - 1))
            /\ DOMAIN analyzer.usage \subseteq BoundNames(SubSeq(module, 1, pos - 1))
            /\ pos = 1 => analyzer = [imports |-> <<>>, usage |-> EmptyMap])
    /\ [][global_counts' # global_counts =>
            /\ TraversalDone
            /\ pc' = "iter"
            /\ global_counts' = Merge(global_counts, analyzer.usage)]_vars

C10_Witness ==
    /\ Len(history) = 1
    /\ history[1].module = FileA
    /\ "useState" \in DOMAIN global_counts
    /\ module = NoImportFile
    /\ TraversalDone
    /\ analyzer.usage = EmptyMap

====
